---- MODULE Spec2Model ----
(***************************************************************************)
(* Model of tasks_database/init/01_init_collections.js: the idempotent     *)
(* MongoDB initialisation script of the Simple Task Organizer.             *)
(*                                                                         *)
(* One "run" is one execution of the script by mongosh.  Every database    *)
(* call of the script is one atomic step of the run; the steps of a run    *)
(* happen in program order.  The database is the only state shared by      *)
(* runs.  A failed database call throws (mongosh helpers throw on a        *)
(* command error) and, the script having no try/catch, ends the run.       *)
(*                                                                         *)
(* JavaScript objects are records; a missing property is a field that is   *)
(* not in the record's DOMAIN.  An index key pattern is the sequence of    *)
(* its <<field, direction>> pairs, in the object's property order, with    *)
(* the direction written as a string ("1", "-1", "text").                  *)
(***************************************************************************)
EXTENDS Integers, Sequences, FiniteSets, TLC

(***************************************************************************)
(* Bounds of the model.                                                    *)
(***************************************************************************)
\* Number of runs of the script (one after the other under Spec, all at
\* once under SpecConc).
MaxRuns == 2
\* Largest number of documents a collection holds before the first run.
MaxInitDocs == 2
\* Number of distinct values "new Date()" may return.
MaxTime == 2

Runs == 1..MaxRuns
Times == 1..MaxTime

Null == "<null>"

Has(o, k) == k \in DOMAIN o

Range(s) == {s[j] : j \in DOMAIN s}

(***************************************************************************)
(* Declared configuration: JSON schemas.  Each property keeps the          *)
(* keywords that constrain a document of the model: bsonType, minLength,   *)
(* maxLength and enum.                                                     *)
(***************************************************************************)
usersSchema ==
    [bsonType |-> "object",
     required |-> {"email", "passwordHash", "createdAt"},
     additionalProperties |-> FALSE,
     properties |->
        [_id          |-> [bsonType |-> {"objectId"}],
         email        |-> [bsonType |-> {"string"}, minLength |-> 5, maxLength |-> 320],
         passwordHash |-> [bsonType |-> {"string"}, minLength |-> 20],
         name         |-> [bsonType |-> {"string", "null"}, maxLength |-> 120],
         roles        |-> [bsonType |-> {"array"}],
         createdAt    |-> [bsonType |-> {"date"}],
         updatedAt    |-> [bsonType |-> {"date", "null"}],
         lastLoginAt  |-> [bsonType |-> {"date", "null"}],
         isActive     |-> [bsonType |-> {"bool"}],
         meta         |-> [bsonType |-> {"object", "null"}]]]

tasksSchema ==
    [bsonType |-> "object",
     required |-> {"title", "status", "ownerId", "createdAt"},
     additionalProperties |-> FALSE,
     properties |->
        [_id         |-> [bsonType |-> {"objectId"}],
         title       |-> [bsonType |-> {"string"}, minLength |-> 1, maxLength |-> 300],
         description |-> [bsonType |-> {"string", "null"}, maxLength |-> 5000],
         status      |-> [bsonType |-> {"string"},
                          enum |-> {"todo", "in_progress", "done", "archived"}],
         priority    |-> [bsonType |-> {"string", "int", "null"}, maxLength |-> 20],
         dueDate     |-> [bsonType |-> {"date", "null"}],
         ownerId     |-> [bsonType |-> {"objectId"}],
         tags        |-> [bsonType |-> {"array"}],
         createdAt   |-> [bsonType |-> {"date"}],
         updatedAt   |-> [bsonType |-> {"date", "null"}],
         completedAt |-> [bsonType |-> {"date", "null"}],
         isDeleted   |-> [bsonType |-> {"bool"}],
         checklist   |-> [bsonType |-> {"array"}]]]

(***************************************************************************)
(* Declared configuration: indexes.                                        *)
(***************************************************************************)
usersIndexes_NoUnique ==
    << [keys |-> << <<"email", "1">> >>, options |-> [name |-> "uniq_email"]],
       [keys |-> << <<"isActive", "1">> >>, options |-> [name |-> "idx_isActive"]],
       [keys |-> << <<"createdAt", "-1">> >>, options |-> [name |-> "idx_createdAt_desc"]] >>

usersIndexes ==
    << [keys |-> << <<"email", "1">> >>,
        options |-> [unique |-> TRUE, name |-> "uniq_email"]],
       [keys |-> << <<"isActive", "1">> >>, options |-> [name |-> "idx_isActive"]],
       [keys |-> << <<"createdAt", "-1">> >>, options |-> [name |-> "idx_createdAt_desc"]] >>

tasksIndexes ==
    << [keys |-> << <<"ownerId", "1">>, <<"status", "1">>, <<"isDeleted", "1">>,
                    <<"createdAt", "-1">> >>,
        options |-> [name |-> "idx_owner_status_deleted_created"]],
       [keys |-> << <<"dueDate", "1">> >>, options |-> [name |-> "idx_dueDate"]],
       [keys |-> << <<"title", "text">>, <<"description", "text">>, <<"tags", "text">> >>,
        options |-> [name |-> "text_search",
                     weights |-> [title |-> 10, description |-> 5, tags |-> 2],
                     default_language |-> "english"]],
       [keys |-> << <<"isDeleted", "1">> >>, options |-> [name |-> "idx_isDeleted"]],
       [keys |-> << <<"status", "1">>, <<"createdAt", "-1">> >>,
        options |-> [name |-> "idx_status_created_desc"]] >>

(***************************************************************************)
(* The database.  db maps the name of every existing collection to its     *)
(* state: its options (validator, validationLevel, validationAction), its  *)
(* set of indexes and its set of documents.  The operators below are the   *)
(* server's answers to the commands the script sends; each returns the     *)
(* error ("ok" for none) and the database after the command.               *)
(***************************************************************************)
DefaultOptions == [validationLevel |-> "strict", validationAction |-> "error"]

IdIndex ==
    [key |-> << <<"_id", "1">> >>, name |-> "_id_", unique |-> TRUE,
     extra |-> [k \in {} |-> Null]]

NewCollection(options) == [options |-> options, indexes |-> {IdIndex}, docs |-> {}]

Exists(d, coll) == coll \in DOMAIN d

Put(d, coll, c) == [n \in DOMAIN d \cup {coll} |-> IF n = coll THEN c ELSE d[n]]

\* The collection a write addresses: a write to a missing collection creates
\* it with default options.
Coll(d, coll) == IF Exists(d, coll) THEN d[coll] ELSE NewCollection(DefaultOptions)

Docs(d, coll) == IF Exists(d, coll) THEN d[coll].docs ELSE {}

Indexes(d, coll) == IF Exists(d, coll) THEN d[coll].indexes ELSE {}

\* db.getCollectionInfos({ name }): the infos of the collections so named.
DbGetCollectionInfos(d, coll) ==
    IF Exists(d, coll) THEN << [name |-> coll, options |-> d[coll].options] >> ELSE << >>

\* db.createCollection(name, options)
DbCreateCollection(d, coll, options) ==
    IF Exists(d, coll)
    THEN [err |-> "NamespaceExists", db |-> d]
    ELSE [err |-> "ok", db |-> Put(d, coll, NewCollection(options))]

\* A reconciler that applied the validator by dropping and recreating the
\* collection.
DbCollMod_Recreate(d, coll, options) ==
    IF ~Exists(d, coll)
    THEN [err |-> "NamespaceNotFound", db |-> d]
    ELSE [err |-> "ok", db |-> Put(d, coll, [NewCollection(options) EXCEPT
                                             !.indexes = d[coll].indexes])]

\* db.runCommand({ collMod: name, validator, validationLevel, validationAction })
DbCollMod(d, coll, options) ==
    IF ~Exists(d, coll)
    THEN [err |-> "NamespaceNotFound", db |-> d]
    ELSE [err |-> "ok",
          db |-> Put(d, coll, [d[coll] EXCEPT !.options =
                    [k \in DOMAIN @ \cup DOMAIN options |->
                        IF k \in DOMAIN options THEN options[k] ELSE @[k]]])]

RECURSIVE Join(_, _)
Join(parts, sep) ==
    IF Len(parts) = 0 THEN ""
    ELSE IF Len(parts) = 1 THEN parts[1]
    ELSE parts[1] \o sep \o Join(Tail(parts), sep)

\* Object.keys(keys).map(k => `${k}_${keys[k]}`).join('_'), which is also the
\* name the server gives an index created without one.
GeneratedName(keys) == Join([j \in 1..Len(keys) |-> keys[j][1] \o "_" \o keys[j][2]], "_")

IsText(keys) == \E j \in 1..Len(keys) : keys[j][2] = "text"

SameKeyPattern(a, b) == a = b \/ (IsText(a) /\ IsText(b))

\* The index a createIndex(keys, options) asks for.
IndexSpec(keys, options) ==
    [key |-> keys,
     name |-> IF Has(options, "name") THEN options.name ELSE GeneratedName(keys),
     unique |-> Has(options, "unique") /\ options.unique,
     extra |-> [k \in DOMAIN options \ {"name", "unique"} |-> options[k]]]

KeyVal(doc, key) ==
    [j \in 1..Len(key) |-> IF Has(doc, key[j][1]) THEN doc[key[j][1]] ELSE Null]

HasDuplicates(docs, key) ==
    \E a, b \in docs : a # b /\ KeyVal(a, key) = KeyVal(b, key)

\* db.getCollection(coll).createIndex(keys, options)
DbCreateIndex(d, coll, keys, options) ==
    LET spec == IndexSpec(keys, options)
        c == Coll(d, coll)
        sameName == {x \in c.indexes : x.name = spec.name}
        sameKey == {x \in c.indexes : SameKeyPattern(x.key, spec.key)}
    IN  IF Len(keys) = 0 THEN [err |-> "CannotCreateIndex", db |-> d]
        ELSE IF spec \in c.indexes THEN [err |-> "ok", db |-> d]
        ELSE IF \E x \in sameName : x.key # spec.key
             THEN [err |-> "IndexKeySpecsConflict", db |-> d]
        ELSE IF sameName # {} \/ sameKey # {}
             THEN [err |-> "IndexOptionsConflict", db |-> d]
        ELSE IF spec.unique /\ HasDuplicates(c.docs, keys)
             THEN [err |-> "DuplicateKey", db |-> d]
        ELSE [err |-> "ok", db |-> Put(d, coll, [c EXCEPT !.indexes = @ \cup {spec}])]

\* $jsonSchema validation of one document.
PropOk(v, p) ==
    /\ Has(p, "enum") => v \in p.enum
    /\ (Has(p, "minLength") /\ v # Null) => Len(v) >= p.minLength
    /\ (Has(p, "maxLength") /\ v # Null) => Len(v) <= p.maxLength

Valid(doc, schema) ==
    /\ schema.required \subseteq DOMAIN doc
    /\ schema.additionalProperties \/ DOMAIN doc \subseteq DOMAIN schema.properties
    /\ \A f \in DOMAIN doc \cap DOMAIN schema.properties :
          PropOk(doc[f], schema.properties[f])

Rejected(doc, options) ==
    /\ Has(options, "validator")
    /\ options.validationLevel # "off"
    /\ options.validationAction = "error"
    /\ ~Valid(doc, options.validator.jsonSchema)

\* Insertion of one document: validated against the collection's validator
\* and against its unique indexes.
DbInsertOne(d, coll, doc) ==
    LET c == Coll(d, coll)
    IN  IF Rejected(doc, c.options)
        THEN [err |-> "DocumentValidationFailure", db |-> d]
        ELSE IF \E x \in c.indexes : x.unique /\
                   \E o \in c.docs : KeyVal(o, x.key) = KeyVal(doc, x.key)
        THEN [err |-> "DuplicateKey", db |-> d]
        ELSE [err |-> "ok", db |-> Put(d, coll, [c EXCEPT !.docs = @ \cup {doc}])]

\* Ordered insertMany: the documents are inserted in order and the first
\* error stops the insertion, the documents before it staying inserted.
RECURSIVE DbInsertMany(_, _, _)
DbInsertMany(d, coll, docs) ==
    IF Len(docs) = 0 THEN [err |-> "ok", db |-> d]
    ELSE LET r == DbInsertOne(d, coll, Head(docs))
         IN  IF r.err # "ok" THEN r ELSE DbInsertMany(r.db, coll, Tail(docs))

\* db.<coll>.countDocuments({})
DbCountDocuments(d, coll) == Cardinality(Docs(d, coll))

(***************************************************************************)
(* The script: its constants and pure helpers.                             *)
(***************************************************************************)
\* db.getName(): the database the connection string selects.
currentDb == "myapp"

\* The two ensureCollection calls of the script, in program order.
Calls_TasksFirst ==
    << [name |-> "tasks", schema |-> tasksSchema, indexes |-> tasksIndexes],
       [name |-> "users", schema |-> usersSchema, indexes |-> usersIndexes] >>

Calls ==
    << [name |-> "users", schema |-> usersSchema, indexes |-> usersIndexes],
       [name |-> "tasks", schema |-> tasksSchema, indexes |-> tasksIndexes] >>

\* The options of db.createCollection in ensureCollection.
CreateOptions(schema) ==
    [validator |-> [jsonSchema |-> schema],
     validationLevel |-> "moderate",
     validationAction |-> "error"]

\* A collMod branch that asks for another validation level than the create
\* branch.
CollModOptions_Strict(schema) ==
    [validator |-> [jsonSchema |-> schema],
     validationLevel |-> "strict",
     validationAction |-> "error"]

\* The options of the collMod command in ensureCollection.
CollModOptions(schema) ==
    [validator |-> [jsonSchema |-> schema],
     validationLevel |-> "moderate",
     validationAction |-> "error"]

\* const keys = idx.keys || {}
IdxKeys(idx) == IF Has(idx, "keys") THEN idx.keys ELSE << >>

\* const options = idx.options || {}
IdxOptions(idx) == IF Has(idx, "options") THEN idx.options ELSE [k \in {} |-> Null]

\* const name = options.name || Object.keys(keys).map(...).join('_')
IdxName(keys, options) ==
    IF Has(options, "name") /\ options.name # "" THEN options.name ELSE GeneratedName(keys)

\* A resolution that takes the loop's own "name" (the index name, which
\* shadows the collection name) for the collection.
TargetCollection_Shadowed(name, options, arg1) == name

\* name ? options.collection || arguments[1] : arguments[1]
TargetCollection(name, options, arg1) ==
    IF name # ""
    THEN IF Has(options, "collection") /\ options.collection # ""
         THEN options.collection
         ELSE arg1
    ELSE arg1

\* JSON.stringify(keys)
StringifyKeys(keys) ==
    "{" \o Join([j \in 1..Len(keys) |->
                    "\"" \o keys[j][1] \o "\":" \o
                    (IF keys[j][2] \in {"1", "-1"} THEN keys[j][2]
                     ELSE "\"" \o keys[j][2] \o "\"")], ",") \o "}"

\* A shell whose helpers return the error document instead of throwing.
Throws_Never(res) == FALSE

\* A failed database call throws, and nothing in the script catches it.
Throws(res) == res.err # "ok"

SeedGuard_Always(cnt) == TRUE

\* db.users.countDocuments({}) === 0
SeedGuard(cnt) == cnt = 0

\* The document of db.users.insertOne.
SeedUser(id, t) ==
    [_id |-> id,
     email |-> "demo@example.com",
     passwordHash |-> "bcrypt$demo-placeholder",
     name |-> "Demo User",
     roles |-> <<"user">>,
     createdAt |-> t,
     updatedAt |-> Null,
     lastLoginAt |-> Null,
     isActive |-> TRUE,
     meta |-> Null]

\* Seed tasks that mint an owner of their own.
SeedTasks_OwnOwner(id, t) ==
    << [title |-> "Welcome to your To-Do app",
        description |-> "Edit or delete this task. Create more to get started.",
        status |-> "todo", priority |-> "medium", dueDate |-> Null,
        ownerId |-> id + 1,
        tags |-> <<"welcome", "getting-started">>,
        createdAt |-> t, updatedAt |-> Null, completedAt |-> Null,
        isDeleted |-> FALSE,
        checklist |-> << [text |-> "Explore the app", done |-> FALSE, doneAt |-> Null],
                         [text |-> "Add a new task", done |-> FALSE, doneAt |-> Null] >>],
       [title |-> "Try completing a task",
        description |-> "Mark this task as done",
        status |-> "in_progress", priority |-> "low", dueDate |-> Null,
        ownerId |-> id + 1,
        tags |-> <<"demo">>,
        createdAt |-> t, updatedAt |-> Null, completedAt |-> Null,
        isDeleted |-> FALSE,
        checklist |-> << >>] >>

\* The documents of db.tasks.insertMany.
SeedTasks(id, t) ==
    << [title |-> "Welcome to your To-Do app",
        description |-> "Edit or delete this task. Create more to get started.",
        status |-> "todo", priority |-> "medium", dueDate |-> Null,
        ownerId |-> id,
        tags |-> <<"welcome", "getting-started">>,
        createdAt |-> t, updatedAt |-> Null, completedAt |-> Null,
        isDeleted |-> FALSE,
        checklist |-> << [text |-> "Explore the app", done |-> FALSE, doneAt |-> Null],
                         [text |-> "Add a new task", done |-> FALSE, doneAt |-> Null] >>],
       [title |-> "Try completing a task",
        description |-> "Mark this task as done",
        status |-> "in_progress", priority |-> "low", dueDate |-> Null,
        ownerId |-> id,
        tags |-> <<"demo">>,
        createdAt |-> t, updatedAt |-> Null, completedAt |-> Null,
        isDeleted |-> FALSE,
        checklist |-> << >>] >>

\* The shell gives every inserted document without an _id a fresh ObjectId.
WithIds(docs, first) ==
    [j \in 1..Len(docs) |->
        [k \in DOMAIN docs[j] \cup {"_id"} |->
            IF k = "_id" THEN first + j - 1 ELSE docs[j][k]]]

CompletedLine == "Initialization script completed successfully."

(***************************************************************************)
(* State.                                                                  *)
(*   db        the database                                                *)
(*   nextOid   the next ObjectId "new ObjectId()" returns                  *)
(*   pc        per run: the statement it is at                             *)
(*   call      per run: the ensureCollection call it is in                 *)
(*   existing  per run: ensureCollection's local "existing"                *)
(*   i         per run: the position of forEach in "indexes"               *)
(*   uid, now  per run: the seed block's locals                            *)
(*   log       per run: the database calls made, each with its outcome     *)
(*   out       per run: the lines printed                                  *)
(*   dbStart   per run: the database when the run was invoked              *)
(***************************************************************************)
VARIABLES db, nextOid, pc, call, existing, i, uid, now, log, out, dbStart

vars == <<db, nextOid, pc, call, existing, i, uid, now, log, out, dbStart>>

EmptyDb == [n \in {} |-> NewCollection(DefaultOptions)]

Ended(r) == pc[r] \in {"done", "aborted"}

DbCallPcs == {"getInfos", "create", "collMod", "index", "count", "insertUser", "insertTasks"}

\* The arguments of the ensureCollection call run r is in.
Arg(r) == Calls[call[r]]

CurIdx(r) == Arg(r).indexes[i[r]]

CurTarget(r) ==
    TargetCollection(IdxName(IdxKeys(CurIdx(r)), IdxOptions(CurIdx(r))),
                     IdxOptions(CurIdx(r)), Arg(r).name)

\* The database call run r is about to make: the operation, the collection
\* it addresses, the ensureCollection call it belongs to ("" in the seed
\* block) and the index it creates ("" when none).
CurCall(r) ==
    IF pc[r] = "getInfos"
    THEN [op |-> "getCollectionInfos", coll |-> Arg(r).name, ensure |-> Arg(r).name, index |-> ""]
    ELSE IF pc[r] = "create"
    THEN [op |-> "createCollection", coll |-> Arg(r).name, ensure |-> Arg(r).name, index |-> ""]
    ELSE IF pc[r] = "collMod"
    THEN [op |-> "collMod", coll |-> Arg(r).name, ensure |-> Arg(r).name, index |-> ""]
    ELSE IF pc[r] = "index"
    THEN [op |-> "createIndex", coll |-> CurTarget(r), ensure |-> Arg(r).name,
          index |-> IdxName(IdxKeys(CurIdx(r)), IdxOptions(CurIdx(r)))]
    ELSE IF pc[r] = "count"
    THEN [op |-> "countDocuments", coll |-> "users", ensure |-> "", index |-> ""]
    ELSE IF pc[r] = "insertUser"
    THEN [op |-> "insertOne", coll |-> "users", ensure |-> "", index |-> ""]
    ELSE [op |-> "insertMany", coll |-> "tasks", ensure |-> "", index |-> ""]

Entry(r, err) ==
    [op |-> CurCall(r).op, coll |-> CurCall(r).coll, ensure |-> CurCall(r).ensure,
     index |-> CurCall(r).index, err |-> err]

\* The lines the script prints between the previous database call and the
\* one run r is about to make.
Announce(r) ==
    IF pc[r] = "create"
    THEN << "- Creating collection '" \o Arg(r).name \o "' with schema validation..." >>
    ELSE IF pc[r] = "collMod"
    THEN << "- Collection '" \o Arg(r).name \o "' already exists. Updating validator..." >>
    ELSE IF pc[r] = "index"
    THEN << "  . Ensuring index '" \o IdxName(IdxKeys(CurIdx(r)), IdxOptions(CurIdx(r)))
            \o "' on '" \o StringifyKeys(IdxKeys(CurIdx(r))) \o "'" >>
    ELSE IF pc[r] = "insertUser" THEN << "Seeding example user..." >>
    ELSE IF pc[r] = "insertTasks" THEN << "Seeding example tasks..." >>
    ELSE << >>

\* Where the script goes once the ensureCollection call run r is in returns.
AfterEnsure(r) ==
    IF call[r] < Len(Calls)
    THEN [pc |-> "getInfos", call |-> call[r] + 1, i |-> 1]
    ELSE [pc |-> "count", call |-> call[r], i |-> 1]

\* Where it goes after the validator step: into the forEach over the
\* indexes, which an empty array skips.
AfterValidator(r) ==
    IF Len(Arg(r).indexes) > 0
    THEN [pc |-> "index", call |-> call[r], i |-> 1]
    ELSE AfterEnsure(r)

AfterIndex(r) ==
    IF i[r] < Len(Arg(r).indexes)
    THEN [pc |-> "index", call |-> call[r], i |-> i[r] + 1]
    ELSE AfterEnsure(r)

\* The control part of a database call of run r with result res that, when
\* it does not throw, continues at "next".
Proceed(r, res, next) ==
    /\ db' = res.db
    /\ log' = [log EXCEPT ![r] = Append(@, Entry(r, res.err))]
    /\ out' = [out EXCEPT ![r] = @ \o Announce(r)]
    /\ pc' = [pc EXCEPT ![r] = IF Throws(res) THEN "aborted" ELSE next.pc]
    /\ call' = [call EXCEPT ![r] = IF Throws(res) THEN @ ELSE next.call]
    /\ i' = [i EXCEPT ![r] = IF Throws(res) THEN @ ELSE next.i]

Here(r, label) == [pc |-> label, call |-> call[r], i |-> i[r]]

(***************************************************************************)
(* The database states a first run may meet.  A collection is absent, or   *)
(* it exists with some options (the server's defaults, or the declared     *)
(* schema under another level and action), some indexes besides the _id    *)
(* index and at most MaxInitDocs documents of a pool; a unique index it    *)
(* has is satisfied by its documents.  The states a run leaves behind      *)
(* (declared options, declared indexes) are met by the runs that follow.   *)
(***************************************************************************)
\* The ensureCollection call the script makes for a collection.
Declared(name) == CHOOSE c \in Range(Calls) : c.name = name

DeclaredSpecs(name) ==
    {IndexSpec(IdxKeys(x), IdxOptions(x)) : x \in Range(Declared(name).indexes)}

InitOptions(name) ==
    {DefaultOptions,
     [validator |-> [jsonSchema |-> Declared(name).schema],
      validationLevel |-> "strict", validationAction |-> "warn"]}

InitIndexSets(name) ==
    IF name = "users"
    THEN {{},
          {IndexSpec(<< <<"name", "1">> >>, [k \in {} |-> Null])},
          {IndexSpec(<< <<"email", "1">> >>, [name |-> "uniq_email"])},
          {IndexSpec(<< <<"email", "1">> >>, [unique |-> TRUE])}}
    ELSE {{},
          {IndexSpec(<< <<"dueDate", "-1">> >>, [name |-> "idx_dueDate"])},
          {IndexSpec(<< <<"title", "text">> >>, [k \in {} |-> Null])}}

InitDocPool(name) ==
    IF name = "users"
    THEN {[_id |-> 1, email |-> "alice@example.com",
           passwordHash |-> "bcrypt$alice-placeholder", createdAt |-> 0],
          [_id |-> 2, email |-> "alice@example.com"],
          [_id |-> 3, email |-> "demo@example.com",
           passwordHash |-> "bcrypt$older-placeholder", createdAt |-> 0]}
    ELSE {[_id |-> 4, title |-> "Buy milk", status |-> "blocked", ownerId |-> 1,
           createdAt |-> 0, isDeleted |-> TRUE]}

Consistent(c) == \A x \in c.indexes : x.unique => ~HasDuplicates(c.docs, x.key)

InitColls(name) ==
    {c \in [options : InitOptions(name),
            indexes : {{IdIndex} \cup s : s \in InitIndexSets(name)},
            docs : {s \in SUBSET InitDocPool(name) : Cardinality(s) <= MaxInitDocs}] :
        Consistent(c)}

InitDbs ==
    {EmptyDb}
      \cup {Put(EmptyDb, "users", u) : u \in InitColls("users")}
      \cup {Put(EmptyDb, "tasks", t) : t \in InitColls("tasks")}
      \cup {Put(Put(EmptyDb, "users", u), "tasks", t) :
               u \in InitColls("users"), t \in InitColls("tasks")}

\* ObjectIds minted by the runs are larger than every _id of the pool.
FirstOid == Cardinality(InitDocPool("users")) + Cardinality(InitDocPool("tasks")) + 1

Init ==
    /\ db \in InitDbs
    /\ nextOid = FirstOid
    /\ pc = [r \in Runs |-> "idle"]
    /\ call = [r \in Runs |-> 1]
    /\ existing = [r \in Runs |-> << >>]
    /\ i = [r \in Runs |-> 1]
    /\ uid = [r \in Runs |-> 0]
    /\ now = [r \in Runs |-> 0]
    /\ log = [r \in Runs |-> << >>]
    /\ out = [r \in Runs |-> << >>]
    /\ dbStart = [r \in Runs |-> EmptyDb]

\* Two or more runs started at once on an empty database.
InitConc ==
    /\ db = EmptyDb
    /\ nextOid = FirstOid
    /\ pc = [r \in Runs |-> "start"]
    /\ call = [r \in Runs |-> 1]
    /\ existing = [r \in Runs |-> << >>]
    /\ i = [r \in Runs |-> 1]
    /\ uid = [r \in Runs |-> 0]
    /\ now = [r \in Runs |-> 0]
    /\ log = [r \in Runs |-> << >>]
    /\ out = [r \in Runs |-> << >>]
    /\ dbStart = [r \in Runs |-> EmptyDb]

(***************************************************************************)
(* The steps of a run.                                                     *)
(***************************************************************************)
\* The script is invoked; under Spec, once every earlier run has ended.
Invoke(r) ==
    /\ pc[r] = "idle"
    /\ \A q \in Runs : q < r => Ended(q)
    /\ pc' = [pc EXCEPT ![r] = "start"]
    /\ dbStart' = [dbStart EXCEPT ![r] = db]
    /\ UNCHANGED <<db, nextOid, call, existing, i, uid, now, log, out>>

\* const currentDb = db.getName(); print(...)
Start(r) ==
    /\ pc[r] = "start"
    /\ out' = [out EXCEPT ![r] = @ \o << "Initializing MongoDB for database: " \o currentDb >>]
    /\ pc' = [pc EXCEPT ![r] = "getInfos"]
    /\ call' = [call EXCEPT ![r] = 1]
    /\ UNCHANGED <<db, nextOid, existing, i, uid, now, log, dbStart>>

\* const existing = db.getCollectionInfos({ name }); if (!existing || ...)
GetCollectionInfos(r) ==
    /\ pc[r] = "getInfos"
    /\ existing' = [existing EXCEPT ![r] = DbGetCollectionInfos(db, Arg(r).name)]
    /\ Proceed(r, [err |-> "ok", db |-> db],
               Here(r, IF Len(DbGetCollectionInfos(db, Arg(r).name)) = 0
                       THEN "create" ELSE "collMod"))
    /\ UNCHANGED <<nextOid, uid, now, dbStart>>

CreateCollection(r) ==
    /\ pc[r] = "create"
    /\ Proceed(r, DbCreateCollection(db, Arg(r).name, CreateOptions(Arg(r).schema)),
               AfterValidator(r))
    /\ UNCHANGED <<nextOid, existing, uid, now, dbStart>>

CollMod(r) ==
    /\ pc[r] = "collMod"
    /\ Proceed(r, DbCollMod(db, Arg(r).name, CollModOptions(Arg(r).schema)),
               AfterValidator(r))
    /\ UNCHANGED <<nextOid, existing, uid, now, dbStart>>

\* One iteration of indexes.forEach.
CreateIndex(r) ==
    /\ pc[r] = "index"
    /\ Proceed(r, DbCreateIndex(db, CurTarget(r), IdxKeys(CurIdx(r)), IdxOptions(CurIdx(r))),
               AfterIndex(r))
    /\ UNCHANGED <<nextOid, existing, uid, now, dbStart>>

\* if (db.users.countDocuments({}) === 0)
CountUsers(r) ==
    /\ pc[r] = "count"
    /\ Proceed(r, [err |-> "ok", db |-> db],
               Here(r, IF SeedGuard(DbCountDocuments(db, "users"))
                       THEN "insertUser" ELSE "complete"))
    /\ UNCHANGED <<nextOid, existing, uid, now, dbStart>>

\* const now = new Date(); const uid = new ObjectId(); db.users.insertOne(...)
InsertUser(r) ==
    /\ pc[r] = "insertUser"
    /\ \E t \in Times :
          /\ now' = [now EXCEPT ![r] = t]
          /\ Proceed(r, DbInsertOne(db, "users", SeedUser(nextOid, t)), Here(r, "insertTasks"))
    /\ uid' = [uid EXCEPT ![r] = nextOid]
    /\ nextOid' = nextOid + 1
    /\ UNCHANGED <<existing, dbStart>>

\* db.tasks.insertMany([...])
InsertTasks(r) ==
    /\ pc[r] = "insertTasks"
    /\ Proceed(r, DbInsertMany(db, "tasks", WithIds(SeedTasks(uid[r], now[r]), nextOid)),
               Here(r, "complete"))
    /\ nextOid' = nextOid + Len(SeedTasks(uid[r], now[r]))
    /\ UNCHANGED <<existing, uid, now, dbStart>>

\* print("Initialization script completed successfully.")
Complete(r) ==
    /\ pc[r] = "complete"
    /\ out' = [out EXCEPT ![r] = Append(@, CompletedLine)]
    /\ pc' = [pc EXCEPT ![r] = "done"]
    /\ UNCHANGED <<db, nextOid, call, existing, i, uid, now, log, dbStart>>

\* The database call run r is about to make fails for a reason that lies
\* outside the database state (the connection is lost, the server rejects
\* the command): the call changes nothing and throws.
Fail(r) ==
    /\ pc[r] \in DbCallPcs
    /\ log' = [log EXCEPT ![r] = Append(@, Entry(r, "Failure"))]
    /\ out' = [out EXCEPT ![r] = @ \o Announce(r)]
    /\ pc' = [pc EXCEPT ![r] = "aborted"]
    /\ UNCHANGED <<db, nextOid, call, existing, i, uid, now, dbStart>>

Step(r) ==
    \/ Start(r)
    \/ GetCollectionInfos(r)
    \/ CreateCollection(r)
    \/ CollMod(r)
    \/ CreateIndex(r)
    \/ CountUsers(r)
    \/ InsertUser(r)
    \/ InsertTasks(r)
    \/ Complete(r)
    \/ Fail(r)

Next == \E r \in Runs : Invoke(r) \/ Step(r)

\* Runs one after the other, from any database state.
Spec == Init /\ [][Next]_vars

NextConc == \E r \in Runs : Step(r)

\* Runs interleaved, from the empty database.
SpecConc == InitConc /\ [][NextConc]_vars

(***************************************************************************)
(* What a run did, read from its log.                                      *)
(***************************************************************************)
Invoked(r) == pc[r] # "idle"

\* Run r made the call "op" on "coll" and the call succeeded.
Did(r, op, coll) ==
    \E j \in DOMAIN log[r] :
        log[r][j].op = op /\ log[r][j].coll = coll /\ log[r][j].err = "ok"

\* A call of run r failed for a reason outside the database state.
MetFailure(r) == \E j \in DOMAIN log[r] : log[r][j].err = "Failure"

\* A call of run r was refused by the database because of its state.
MetRefusal(r) == \E j \in DOMAIN log[r] : log[r][j].err \notin {"ok", "Failure"}

IndexNamesUnique(d) ==
    \A n \in DOMAIN d : \A x, y \in d[n].indexes : x.name = y.name => x = y

DemoUsers(d) == {u \in Docs(d, "users") : Has(u, "email") /\ u.email = "demo@example.com"}

(***************************************************************************)
(* C1.  Idempotence: once a run has completed, the run invoked next is     *)
(* refused no call by the database, completes unless a call fails for an   *)
(* outside reason, and leaves the database (collections, options,          *)
(* indexes, documents) exactly as the completed run left it; no collection *)
(* holds two indexes of one name and users holds at most one seed user     *)
(* more than before the runs.                                              *)
(***************************************************************************)
C1_Idempotent ==
    \A r \in Runs : \A q \in Runs :
        (q + 1 = r /\ pc[q] = "done" /\ Invoked(r)) =>
            /\ db = dbStart[r]
            /\ ~MetRefusal(r)
            /\ (Ended(r) /\ ~MetFailure(r)) => pc[r] = "done"
            /\ IndexNamesUnique(db)
            /\ Cardinality(DemoUsers(db)) <= Cardinality(DemoUsers(dbStart[q])) + 1

\* A first run that created both collections and seeded them, and a second
\* run that completed after it.
C1_Witness ==
    \E r \in Runs : \E q \in Runs :
        /\ q + 1 = r /\ pc[q] = "done" /\ pc[r] = "done"
        /\ Did(q, "createCollection", "users") /\ Did(q, "insertMany", "tasks")
        /\ Did(r, "collMod", "users")

(***************************************************************************)
(* C2.  A run invoked on the empty database that completes leaves exactly  *)
(* one user and two tasks, no task deleted, each task owned by that user.  *)
(***************************************************************************)
C2_SeedOnEmpty ==
    \A r \in Runs :
        (pc[r] = "done" /\ dbStart[r] = EmptyDb) =>
            /\ Cardinality(Docs(db, "users")) = 1
            /\ Cardinality(Docs(db, "tasks")) = 2
            /\ \A t \in Docs(db, "tasks") :
                  /\ t.isDeleted = FALSE
                  /\ \A u \in Docs(db, "users") : t.ownerId = u._id

C2_Witness ==
    \E r \in Runs :
        /\ pc[r] = "done" /\ dbStart[r] = EmptyDb
        /\ Did(r, "insertOne", "users") /\ Did(r, "insertMany", "tasks")

(***************************************************************************)
(* C3.  The claim as stated: a completed run inserted the seed tasks if    *)
(* and only if tasks held no document at its seed step.  (Runs follow one  *)
(* another under Spec, so tasks holds at the seed step of a run what it    *)
(* held when the run was invoked.)                                         *)
(***************************************************************************)
C3_TasksGuardedByTasks ==
    \A r \in Runs :
        pc[r] = "done" =>
            (Did(r, "insertMany", "tasks") <=> Docs(dbStart[r], "tasks") = {})

(***************************************************************************)
(* C4.  A run invoked while users holds a document leaves the documents    *)
(* of users as they were, whatever tasks holds.                            *)
(***************************************************************************)
C4_UsersGuard ==
    \A r \in Runs :
        (Invoked(r) /\ Docs(dbStart[r], "users") # {}) =>
            /\ Docs(db, "users") = Docs(dbStart[r], "users")
            /\ ~ \E j \in DOMAIN log[r] :
                    log[r][j].coll = "users" /\ log[r][j].op \in {"insertOne", "insertMany"}

\* A completed run that met users non-empty and tasks empty.
C4_Witness ==
    \E r \in Runs :
        /\ pc[r] = "done"
        /\ Docs(dbStart[r], "users") # {}
        /\ Docs(dbStart[r], "tasks") = {}
        /\ DemoUsers(dbStart[r]) = {}

(***************************************************************************)
(* One uninterrupted run as a function of the database it starts on: the   *)
(* calls of the script composed in program order, stopping at the first    *)
(* call that throws.  id is the ObjectId and t the date the seed block     *)
(* would mint.                                                             *)
(***************************************************************************)
RECURSIVE EnsureIndexes(_, _, _, _)
EnsureIndexes(d, name, indexes, j) ==
    IF j > Len(indexes) THEN [err |-> "ok", db |-> d]
    ELSE LET keys == IdxKeys(indexes[j])
             options == IdxOptions(indexes[j])
             res == DbCreateIndex(d, TargetCollection(IdxName(keys, options), options, name),
                                  keys, options)
         IN  IF Throws(res) THEN res ELSE EnsureIndexes(res.db, name, indexes, j + 1)

EnsureCollection(d, name, schema, indexes) ==
    LET res == IF Len(DbGetCollectionInfos(d, name)) = 0
               THEN DbCreateCollection(d, name, CreateOptions(schema))
               ELSE DbCollMod(d, name, CollModOptions(schema))
    IN  IF Throws(res) THEN res ELSE EnsureIndexes(res.db, name, indexes, 1)

RECURSIVE EnsureAll(_, _)
EnsureAll(d, k) ==
    IF k > Len(Calls) THEN [err |-> "ok", db |-> d]
    ELSE LET res == EnsureCollection(d, Calls[k].name, Calls[k].schema, Calls[k].indexes)
         IN  IF Throws(res) THEN res ELSE EnsureAll(res.db, k + 1)

SeedBlock(d, id, t) ==
    IF SeedGuard(DbCountDocuments(d, "users"))
    THEN LET res == DbInsertOne(d, "users", SeedUser(id, t))
         IN  IF Throws(res) THEN res
             ELSE DbInsertMany(res.db, "tasks", WithIds(SeedTasks(id, t), id + 1))
    ELSE [err |-> "ok", db |-> d]

WholeRun(d, id, t) ==
    LET res == EnsureAll(d, 1)
    IN  IF Throws(res) THEN res ELSE SeedBlock(res.db, id, t)

(***************************************************************************)
(* Two database states are the same up to what differs from one run to     *)
(* another by construction: the ObjectIds and dates a run mints.  A        *)
(* document is read without its _id and createdAt, its ownerId replaced    *)
(* by the emails of the users it refers to.                                *)
(***************************************************************************)
Essence(d, doc) ==
    [k \in (DOMAIN doc \ {"_id", "createdAt"}) |->
        IF k = "ownerId"
        THEN {u.email : u \in {v \in Docs(d, "users") : Has(v, "email") /\ v._id = doc.ownerId}}
        ELSE doc[k]]

Shape(d) ==
    [n \in DOMAIN d |->
        [options |-> d[n].options,
         indexes |-> d[n].indexes,
         count |-> Cardinality(d[n].docs),
         docs |-> {Essence(d, doc) : doc \in d[n].docs}]]

\* Run r was invoked after runs that all aborted, and met no failure of
\* its own, from an original state on which one uninterrupted run completes.
Resumed(r) ==
    /\ r > 1
    /\ \A q \in Runs : q < r => pc[q] = "aborted"
    /\ Ended(r) /\ ~MetFailure(r)
    /\ WholeRun(dbStart[1], 0, 0).err = "ok"

(***************************************************************************)
(* C5.  The claim as stated: a run invoked after aborted runs, which       *)
(* meets no failure of its own, completes, is refused no call, and leaves  *)
(* the database as one uninterrupted run from the original state would     *)
(* have left it.                                                           *)
(***************************************************************************)
C5_ResumeEqualsWholeRun ==
    \A r \in Runs :
        Resumed(r) =>
            /\ pc[r] = "done"
            /\ ~MetRefusal(r)
            /\ Shape(db) = Shape(WholeRun(dbStart[1], 0, 0).db)

\* The part of C5 the script keeps: the same, when no earlier run had
\* inserted the seed user before it aborted.
ResumeBeforeSeed ==
    \A r \in Runs :
        (Resumed(r) /\ \A q \in Runs : q < r => ~Did(q, "insertOne", "users")) =>
            /\ pc[r] = "done"
            /\ ~MetRefusal(r)
            /\ Shape(db) = Shape(WholeRun(dbStart[1], 0, 0).db)

(***************************************************************************)
(* C6.  Order of the calls of one run: a createIndex on a collection       *)
(* follows a successful createCollection or collMod of that collection;    *)
(* every call of ensureCollection for users precedes every call of         *)
(* ensureCollection for tasks; a seed insert follows the validator step    *)
(* and the creation of every declared index of both collections; and       *)
(* insertMany on tasks follows a successful insertOne on users.            *)
(***************************************************************************)
C6_StepOrder ==
    \A r \in Runs : \A k \in DOMAIN log[r] :
        LET e == log[r][k]
            Before(op, coll, index) ==
                \E j \in 1..(k - 1) :
                    /\ log[r][j].op \in op /\ log[r][j].coll = coll
                    /\ log[r][j].index = index /\ log[r][j].err = "ok"
        IN  /\ e.op = "createIndex" => Before({"createCollection", "collMod"}, e.coll, "")
            /\ e.ensure = "users" =>
                  \A j \in 1..(k - 1) : log[r][j].ensure = "users"
            /\ e.ensure = "tasks" =>
                  \A j \in (k + 1)..Len(log[r]) : log[r][j].ensure # "users"
            /\ e.op \in {"insertOne", "insertMany"} =>
                  \A c \in {"users", "tasks"} :
                     /\ Before({"createCollection", "collMod"}, c, "")
                     /\ \A x \in DeclaredSpecs(c) : Before({"createIndex"}, c, x.name)
            /\ e.op = "insertMany" => Before({"insertOne"}, "users", "")

\* A run that went through both ensureCollection calls and both inserts.
C6_Witness ==
    \E r \in Runs :
        /\ pc[r] = "done"
        /\ Did(r, "collMod", "users") /\ Did(r, "createCollection", "tasks")
        /\ Did(r, "insertOne", "users") /\ Did(r, "insertMany", "tasks")

(***************************************************************************)
(* C7.  Fail-fast: a call that fails is the last call of its run and the   *)
(* run is aborted; a createIndex that meets an index of the same name or   *)
(* keys with another definition is such a call, logged with the database's *)
(* error; and the line "Initialization script completed successfully." is  *)
(* printed only by a run all of whose calls succeeded, which made every    *)
(* call of the script up to the seed guard.                                *)
(***************************************************************************)
C7_FailFast ==
    \A r \in Runs :
        /\ \A j \in DOMAIN log[r] :
              log[r][j].err # "ok" => (j = Len(log[r]) /\ pc[r] = "aborted")
        /\ pc[r] = "aborted" => (log[r] # << >> /\ log[r][Len(log[r])].err # "ok")
        /\ CompletedLine \in Range(out[r]) =>
              /\ pc[r] = "done"
              /\ \A j \in DOMAIN log[r] : log[r][j].err = "ok"
              /\ \A c \in {"users", "tasks"} : \A x \in DeclaredSpecs(c) :
                    \E j \in DOMAIN log[r] :
                        log[r][j].op = "createIndex" /\ log[r][j].index = x.name
              /\ Did(r, "countDocuments", "users")

\* A run aborted by an index conflict on tasks, after the whole of
\* ensureCollection for users.
C7_Witness ==
    \E r \in Runs :
        /\ pc[r] = "aborted"
        /\ log[r][Len(log[r])].op = "createIndex"
        /\ log[r][Len(log[r])].coll = "tasks"
        /\ log[r][Len(log[r])].err \in {"IndexKeySpecsConflict", "IndexOptionsConflict"}
        /\ CompletedLine \notin Range(out[r])

(***************************************************************************)
(* C8.  Documents are never touched: while a run is the latest invoked,    *)
(* every document users and tasks held when it was invoked is still there  *)
(* unchanged, whether the run completes or aborts; until the run has made  *)
(* a successful insert the documents are exactly those; and the documents  *)
(* added are the seed documents the run inserted.                          *)
(***************************************************************************)
C8_DocumentsKept ==
    \A r \in Runs : \A n \in {"users", "tasks"} :
        (Invoked(r) /\ \A q \in Runs : q > r => ~Invoked(q)) =>
            /\ Docs(dbStart[r], n) \subseteq Docs(db, n)
            /\ (~Did(r, "insertOne", "users") /\ ~Did(r, "insertMany", "tasks")) =>
                  Docs(db, n) = Docs(dbStart[r], n)
            /\ Docs(db, n) \ Docs(dbStart[r], n) \subseteq
                  IF n = "users" THEN {SeedUser(uid[r], now[r])}
                  ELSE Range(WithIds(SeedTasks(uid[r], now[r]), uid[r] + 1))

\* A run that met documents in users and tasks, modified both collections
\* and ended.
C8_Witness ==
    \E r \in Runs :
        /\ Ended(r)
        /\ Docs(dbStart[r], "users") # {} /\ Docs(dbStart[r], "tasks") # {}
        /\ Did(r, "collMod", "users") /\ Did(r, "collMod", "tasks")

(***************************************************************************)
(* C9.  After a completed run, whatever the state it started on, users     *)
(* and tasks exist, each with its declared schema as validator, level      *)
(* "moderate" and action "error" (the create branch and the collMod        *)
(* branch set the same options), and each holds every index declared for   *)
(* it; and every createIndex of a run addresses the collection passed to   *)
(* ensureCollection.                                                       *)
(***************************************************************************)
C9_PostState ==
    \A r \in Runs :
        /\ \A j \in DOMAIN log[r] :
              log[r][j].op = "createIndex" => log[r][j].coll = log[r][j].ensure
        /\ pc[r] = "done" =>
              \A name \in {"users", "tasks"} :
                 /\ Exists(db, name)
                 /\ db[name].options =
                       [validator |-> [jsonSchema |-> Declared(name).schema],
                        validationLevel |-> "moderate", validationAction |-> "error"]
                 /\ DeclaredSpecs(name) \subseteq db[name].indexes
                 /\ DOMAIN db = {"users", "tasks"}

\* A completed run that took the collMod branch on users, whose options
\* differed, and the create branch on tasks.
C9_Witness ==
    \E r \in Runs :
        /\ pc[r] = "done"
        /\ Exists(dbStart[r], "users")
        /\ dbStart[r]["users"].options.validationLevel = "strict"
        /\ ~Exists(dbStart[r], "tasks")
        /\ Did(r, "collMod", "users") /\ Did(r, "createCollection", "tasks")

(***************************************************************************)
(* C10.  Runs interleaved on the empty database: users never holds more    *)
(* than one seed user, tasks never holds more than the two seed tasks,     *)
(* and every task refers to a user that is in users.                       *)
(***************************************************************************)
C10_RaceSafe ==
    /\ Cardinality(DemoUsers(db)) <= 1
    /\ Cardinality(Docs(db, "tasks")) <= 2
    /\ \A t \in Docs(db, "tasks") : \E u \in Docs(db, "users") : u._id = t.ownerId

\* Two runs both found users empty; one seeded, the other's insertOne was
\* refused by the unique index.
C10_Witness ==
    \E r \in Runs : \E q \in Runs :
        /\ r # q
        /\ Did(r, "insertOne", "users") /\ Did(r, "insertMany", "tasks")
        /\ log[q] # << >>
        /\ log[q][Len(log[q])].op = "insertOne"
        /\ log[q][Len(log[q])].err = "DuplicateKey"

====
